---- MODULE Spec2Model ----
(***************************************************************************)
(* Model of the CarbonFootprintCalculator component (src/src/App.tsx).     *)
(*                                                                         *)
(* Numbers.  A JavaScript number is modelled as [nan, v]: NaN, or a finite *)
(* decimal held as a scaled integer.  Activity inputs and emission factors *)
(* are held in tenths (1.2 is 12); a product of the two is therefore held  *)
(* in hundredths (12.00 is 1200).  All values of the model have at most    *)
(* one decimal, so the scaled arithmetic is exact; the binary rounding of  *)
(* IEEE doubles is not modelled.                                           *)
(*                                                                         *)
(* Text.  The text of a field is a sequence of one-character strings, so   *)
(* "-5" is <<"-", "5">>.                                                   *)
(*                                                                         *)
(* React.  A handler's state update is followed by a render; the effect of *)
(* a render runs after that render is committed, and before the next       *)
(* render starts, with the values the render it belongs to had.            *)
(***************************************************************************)
EXTENDS Integers, Sequences, FiniteSets

VARIABLES carbonFootprintData, emissionFactors, carbonFootprintReport,
          mounted, effectPending, displayed, lastEvent, edits

vars == <<carbonFootprintData, emissionFactors, carbonFootprintReport,
          mounted, effectPending, displayed, lastEvent, edits>>

\* ------------------------------------------------------------------ bounds
\* Change events handled in one behaviour of Spec.
MaxEdits == 3
\* Change events handled in one behaviour of ScenarioSpec.
MaxScenarioEdits == 5

\* -------------------------------------------------------------- categories
Categories ==
    <<"coalProduction", "energyConsumption", "transportationEmissions",
      "employeeCommuting", "supplyChainEmissions">>

Cat == {Categories[i] : i \in 1..Len(Categories)}

\* ----------------------------------------------------------------- numbers
Num(n) == [nan |-> FALSE, v |-> n]
NaN == [nan |-> TRUE, v |-> 0]
Zero == Num(0)

\* a * b of JavaScript: NaN if either operand is NaN.
Mul(a, b) == IF a.nan \/ b.nan THEN NaN ELSE Num(a.v * b.v)

\* a + b of JavaScript: NaN if either operand is NaN.
Add(a, b) == IF a.nan \/ b.nan THEN NaN ELSE Num(a.v + b.v)

\* Math.max(a, b): NaN if either argument is NaN, else the larger.
MathMax(a, b) ==
    IF a.nan \/ b.nan THEN NaN
    ELSE IF a.v >= b.v THEN a ELSE b

\* -------------------------------------------------------- text to number
DigitChars == <<"0", "1", "2", "3", "4", "5", "6", "7", "8", "9">>
DigitSet == {DigitChars[i] : i \in 1..Len(DigitChars)}
DigitVal(ch) == (CHOOSE i \in 1..Len(DigitChars) : DigitChars[i] = ch) - 1

AllDigits(s) == \A i \in 1..Len(s) : s[i] \in DigitSet

RECURSIVE DecVal(_)
DecVal(s) ==
    IF s = <<>> THEN 0
    ELSE DecVal(SubSeq(s, 1, Len(s) - 1)) * 10 + DigitVal(s[Len(s)])

\* The unsigned part of a decimal literal: digits, at most one ".", and at
\* least one digit.  Exponents, hex and "Infinity" are outside the model.
IsDecimalLiteral(s) ==
    LET dots == {i \in 1..Len(s) : s[i] = "."} IN
    IF dots = {} THEN Len(s) > 0 /\ AllDigits(s)
    ELSE /\ Cardinality(dots) = 1
         /\ LET p == CHOOSE i \in dots : TRUE
                ip == SubSeq(s, 1, p - 1)
                fp == SubSeq(s, p + 1, Len(s))
            IN  AllDigits(ip) /\ AllDigits(fp) /\ Len(ip) + Len(fp) > 0

\* The value of a decimal literal in tenths (its first decimal is kept).
DecimalTenths(s) ==
    LET dots == {i \in 1..Len(s) : s[i] = "."} IN
    IF dots = {} THEN DecVal(s) * 10
    ELSE LET p == CHOOSE i \in dots : TRUE
             ip == SubSeq(s, 1, p - 1)
             fp == SubSeq(s, p + 1, Len(s))
         IN  DecVal(ip) * 10 + (IF fp = <<>> THEN 0 ELSE DigitVal(fp[1]))

Unsigned(s) == IF s # <<>> /\ Head(s) \in {"-", "+"} THEN Tail(s) ELSE s

\* Number(value) of JavaScript on a string: the empty string is 0, a signed
\* decimal literal is its value, anything else is NaN.
Number(value) ==
    IF value = <<>> THEN Zero
    ELSE IF ~IsDecimalLiteral(Unsigned(value)) THEN NaN
    ELSE IF Head(value) = "-" THEN Num(0 - DecimalTenths(Unsigned(value)))
    ELSE Num(DecimalTenths(Unsigned(value)))

\* ------------------------------------------------------- number to text
RECURSIVE IntDigits(_)
IntDigits(n) ==
    IF n < 10 THEN <<DigitChars[n + 1]>>
    ELSE Append(IntDigits(n \div 10), DigitChars[(n % 10) + 1])

\* x.toFixed(2) for x held in hundredths.
ToFixed2(x) ==
    IF x.nan THEN <<"N", "a", "N">>
    ELSE LET a == IF x.v < 0 THEN 0 - x.v ELSE x.v
             sign == IF x.v < 0 THEN <<"-">> ELSE <<>>
         IN  sign \o IntDigits(a \div 100) \o <<".">>
                  \o <<DigitChars[((a % 100) \div 10) + 1], DigitChars[(a % 10) + 1]>>

\* ------------------------------------------------------- component state
\* useState initial value of carbonFootprintData.
InitialData ==
    [coalProduction |-> Zero, energyConsumption |-> Zero,
     transportationEmissions |-> Zero, employeeCommuting |-> Zero,
     supplyChainEmissions |-> Zero]

\* Mutant of InitialFactors: the last preset is 1.0 instead of 1.1.
InitialFactors_WrongPreset ==
    [coalProduction |-> Num(12), energyConsumption |-> Num(8),
     transportationEmissions |-> Num(15), employeeCommuting |-> Num(2),
     supplyChainEmissions |-> Num(10)]

\* useState initial value of emissionFactors: 1.2, 0.8, 1.5, 0.2, 1.1.
InitialFactors ==
    [coalProduction |-> Num(12), energyConsumption |-> Num(8),
     transportationEmissions |-> Num(15), employeeCommuting |-> Num(2),
     supplyChainEmissions |-> Num(11)]

\* useState initial value of carbonFootprintReport.
Null == [present |-> FALSE]

\* The texts a change event carries in the model.
InputTexts ==
    { <<>>, <<"a", "b", "c">>, <<"-", "5">>, <<"1", "0">> }

FactorTexts ==
    { <<"a", "b", "c">>, <<"-", "5">>, <<"0", ".", "5">> }

ScenarioTexts == InputTexts \cup { <<"1">> }

NoEvent == [kind |-> "none", name |-> "", value |-> <<>>, pending |-> FALSE]

\* ------------------------------------------------- mutants of the derivation
\* The energy term is multiplied by the coal factor, in the total and in
\* the breakdown.
calculateCarbonFootprint_WrongFactor(data, factors) ==
    LET byCat == [c \in Cat |->
                    IF c = "energyConsumption"
                    THEN Mul(data[c], factors.coalProduction)
                    ELSE Mul(data[c], factors[c])]
    IN  [present |-> TRUE,
         totalEmissions |->
            Add(Add(Add(Add(byCat.coalProduction, byCat.energyConsumption),
                        byCat.transportationEmissions),
                    byCat.employeeCommuting),
                byCat.supplyChainEmissions),
         emissionsByCategory |-> byCat]

\* The breakdown's energy entry is computed from the coal input.
calculateCarbonFootprint_CopiedInput(data, factors) ==
    LET prod == [c \in Cat |-> Mul(data[c], factors[c])]
    IN  [present |-> TRUE,
         totalEmissions |->
            Add(Add(Add(Add(prod.coalProduction, prod.energyConsumption),
                        prod.transportationEmissions),
                    prod.employeeCommuting),
                prod.supplyChainEmissions),
         emissionsByCategory |->
            [prod EXCEPT !.energyConsumption =
                Mul(data.coalProduction, factors.energyConsumption)]]

\* The total leaves out the supply-chain term.
calculateCarbonFootprint_DropsTerm(data, factors) ==
    LET prod == [c \in Cat |-> Mul(data[c], factors[c])]
    IN  [present |-> TRUE,
         totalEmissions |->
            Add(Add(Add(prod.coalProduction, prod.energyConsumption),
                    prod.transportationEmissions),
                prod.employeeCommuting),
         emissionsByCategory |-> prod]

\* --------------------------------------------------------------- derivation
\* The report calculateCarbonFootprint hands to setCarbonFootprintReport.
calculateCarbonFootprint(data, factors) ==
    LET coalProduction == data.coalProduction
        energyConsumption == data.energyConsumption
        transportationEmissions == data.transportationEmissions
        employeeCommuting == data.employeeCommuting
        supplyChainEmissions == data.supplyChainEmissions
        efCoal == factors.coalProduction
        efEnergy == factors.energyConsumption
        efTransport == factors.transportationEmissions
        efCommuting == factors.employeeCommuting
        efSupplyChain == factors.supplyChainEmissions
        totalEmissions ==
            Add(Add(Add(Add(Mul(coalProduction, efCoal),
                            Mul(energyConsumption, efEnergy)),
                        Mul(transportationEmissions, efTransport)),
                    Mul(employeeCommuting, efCommuting)),
                Mul(supplyChainEmissions, efSupplyChain))
        emissionsByCategory ==
            [coalProduction |-> Mul(coalProduction, efCoal),
             energyConsumption |-> Mul(energyConsumption, efEnergy),
             transportationEmissions |-> Mul(transportationEmissions, efTransport),
             employeeCommuting |-> Mul(employeeCommuting, efCommuting),
             supplyChainEmissions |-> Mul(supplyChainEmissions, efSupplyChain)]
    IN  [present |-> TRUE,
         totalEmissions |-> totalEmissions,
         emissionsByCategory |-> emissionsByCategory]

\* Mutant of EffectDeps: the effect is not subscribed to the factors.
EffectDeps_DataOnly == {"carbonFootprintData"}

\* The state values the effect is subscribed to.
EffectDeps == {"carbonFootprintData", "emissionFactors"}

\* The report state once the effect a previous render left pending has run:
\* it derives from the values of that render, which are the unprimed ones.
AfterPendingEffect ==
    IF effectPending
    THEN calculateCarbonFootprint(carbonFootprintData, emissionFactors)
    ELSE carbonFootprintReport

\* ------------------------------------------------------------- presentation
\* What a render puts on the page: the ten field values and, once a report
\* exists, its total and per-category values to two decimals.
Render(data, factors, report) ==
    [inputs |-> data,
     factors |-> factors,
     report |->
        IF report = Null THEN [present |-> FALSE]
        ELSE [present |-> TRUE,
              total |-> ToFixed2(report.totalEmissions),
              byCategory |->
                 [c \in Cat |-> ToFixed2(report.emissionsByCategory[c])]]]

NotRendered == [inputs |-> InitialData, factors |-> InitialFactors,
                report |-> [present |-> FALSE]]

\* ------------------------------------------------------------------ actions
Init ==
    /\ carbonFootprintData = InitialData
    /\ emissionFactors = InitialFactors
    /\ carbonFootprintReport = Null
    /\ mounted = FALSE
    /\ effectPending = FALSE
    /\ displayed = NotRendered
    /\ lastEvent = NoEvent
    /\ edits = 0

\* Mutant of Mount: the first render leaves no effect pending.
Mount_NoEffect ==
    /\ ~mounted
    /\ mounted' = TRUE
    /\ displayed' = Render(carbonFootprintData, emissionFactors, carbonFootprintReport)
    /\ effectPending' = FALSE
    /\ UNCHANGED <<carbonFootprintData, emissionFactors, carbonFootprintReport,
                   lastEvent, edits>>

\* First render: the report is null, nothing of it is shown, and the
\* effect is left pending.
Mount ==
    /\ ~mounted
    /\ mounted' = TRUE
    /\ displayed' = Render(carbonFootprintData, emissionFactors, carbonFootprintReport)
    /\ effectPending' = TRUE
    /\ UNCHANGED <<carbonFootprintData, emissionFactors, carbonFootprintReport,
                   lastEvent, edits>>

\* Mutant of RunEffect: the report is set without a render following it.
RunEffect_NoRender ==
    /\ mounted
    /\ effectPending
    /\ carbonFootprintReport' =
          calculateCarbonFootprint(carbonFootprintData, emissionFactors)
    /\ effectPending' = FALSE
    /\ UNCHANGED <<carbonFootprintData, emissionFactors, mounted, displayed,
                   lastEvent, edits>>

\* The effect of the last render runs: calculateCarbonFootprint sets the
\* report, and the render that follows has unchanged dependencies.
RunEffect ==
    /\ mounted
    /\ effectPending
    /\ carbonFootprintReport' =
          calculateCarbonFootprint(carbonFootprintData, emissionFactors)
    /\ effectPending' = FALSE
    /\ displayed' = Render(carbonFootprintData, emissionFactors, carbonFootprintReport')
    /\ UNCHANGED <<carbonFootprintData, emissionFactors, mounted, lastEvent, edits>>

\* Mutant of HandleInputChange: the new object spreads the factors instead
\* of the previous activity inputs.
HandleInputChange_SpreadsFactors(name, value) ==
    /\ mounted
    /\ carbonFootprintData' =
          [emissionFactors EXCEPT ![name] = MathMax(Zero, Number(value))]
    /\ carbonFootprintReport' = AfterPendingEffect
    /\ effectPending' = ("carbonFootprintData" \in EffectDeps)
    /\ displayed' = Render(carbonFootprintData', emissionFactors, carbonFootprintReport')
    /\ lastEvent' = [kind |-> "input", name |-> name, value |-> value,
                     pending |-> effectPending]
    /\ edits' = edits + 1
    /\ UNCHANGED <<emissionFactors, mounted>>

\* onChange of an activity field, and the render it causes.
HandleInputChange(name, value) ==
    /\ mounted
    /\ carbonFootprintData' =
          [carbonFootprintData EXCEPT ![name] = MathMax(Zero, Number(value))]
    /\ carbonFootprintReport' = AfterPendingEffect
    /\ effectPending' = ("carbonFootprintData" \in EffectDeps)
    /\ displayed' = Render(carbonFootprintData', emissionFactors, carbonFootprintReport')
    /\ lastEvent' = [kind |-> "input", name |-> name, value |-> value,
                     pending |-> effectPending]
    /\ edits' = edits + 1
    /\ UNCHANGED <<emissionFactors, mounted>>

\* onChange of a factor field, and the render it causes.
HandleEmissionFactorChange(name, value) ==
    /\ mounted
    /\ emissionFactors' =
          [emissionFactors EXCEPT ![name] = MathMax(Zero, Number(value))]
    /\ carbonFootprintReport' = AfterPendingEffect
    /\ effectPending' = ("emissionFactors" \in EffectDeps)
    /\ displayed' = Render(carbonFootprintData, emissionFactors', carbonFootprintReport')
    /\ lastEvent' = [kind |-> "factor", name |-> name, value |-> value,
                     pending |-> effectPending]
    /\ edits' = edits + 1
    /\ UNCHANGED <<carbonFootprintData, mounted>>

InputEdit ==
    /\ edits < MaxEdits
    /\ \E name \in Cat, value \in InputTexts : HandleInputChange(name, value)

FactorEdit ==
    /\ edits < MaxEdits
    /\ \E name \in Cat, value \in FactorTexts : HandleEmissionFactorChange(name, value)

Next == Mount \/ RunEffect \/ InputEdit \/ FactorEdit

Spec == Init /\ [][Next]_vars

\* The scheduler runs the first render and every pending effect.
FairSpec == Spec /\ WF_vars(Mount) /\ WF_vars(RunEffect)

\* Only activity fields are edited: the factors keep their initial values.
ScenarioEdit ==
    /\ edits < MaxScenarioEdits
    /\ \E name \in Cat, value \in ScenarioTexts : HandleInputChange(name, value)

ScenarioNext == Mount \/ RunEffect \/ ScenarioEdit

ScenarioSpec == Init /\ [][ScenarioNext]_vars

\* ---------------------------------------------------- vocabulary of claims
NonNeg(x) == ~x.nan /\ x.v >= 0

\* No effect is pending: every recomputation that was scheduled has run.
Settled == mounted /\ ~effectPending

ParsesNegative(value) == ~Number(value).nan /\ Number(value).v < 0

IsNumericText(value) == IsDecimalLiteral(Unsigned(value))

\* The stored value the last change event was about.
StoredOfLastEvent ==
    IF lastEvent.kind = "input" THEN carbonFootprintData[lastEvent.name]
    ELSE emissionFactors[lastEvent.name]

RECURSIVE SumProducts(_, _, _)
SumProducts(data, factors, i) ==
    IF i = 0 THEN 0
    ELSE SumProducts(data, factors, i - 1)
            + data[Categories[i]].v * factors[Categories[i]].v

RECURSIVE SumValues(_, _)
SumValues(byCat, i) ==
    IF i = 1 THEN byCat[Categories[1]]
    ELSE Add(SumValues(byCat, i - 1), byCat[Categories[i]])

ZeroText == <<"0", ".", "0", "0">>

\* --------------------------------------------------------------------- C1
\* C1: for non-negative stored inputs and factors, the report derived from
\* them has totalEmissions equal to the sum over the five categories of
\* input * factor, and emissionsByCategory[c] equal to input[c] * factor[c].
C1_WeightedSum ==
    (Settled /\ \A c \in Cat : NonNeg(carbonFootprintData[c])
                              /\ NonNeg(emissionFactors[c]))
    => /\ carbonFootprintReport.present
       /\ carbonFootprintReport.totalEmissions
             = Num(SumProducts(carbonFootprintData, emissionFactors, Len(Categories)))
       /\ \A c \in Cat :
             carbonFootprintReport.emissionsByCategory[c]
                = Num(carbonFootprintData[c].v * emissionFactors[c].v)

C1_Witness ==
    /\ Settled
    /\ \A c \in Cat : NonNeg(carbonFootprintData[c]) /\ NonNeg(emissionFactors[c])
    /\ carbonFootprintData.coalProduction = Num(100)
    /\ carbonFootprintData.energyConsumption = Num(100)
    /\ emissionFactors.energyConsumption = Num(5)
    /\ carbonFootprintReport.totalEmissions = Num(1700)

C5_EditFrame ==
    [][ /\ (edits' = edits + 1 /\ lastEvent'.kind = "input")
           => /\ emissionFactors' = emissionFactors
              /\ \A d \in Cat \ {lastEvent'.name} :
                    carbonFootprintData'[d] = carbonFootprintData[d]
        /\ (edits' = edits + 1 /\ lastEvent'.kind = "factor")
           => /\ carbonFootprintData' = carbonFootprintData
              /\ \A d \in Cat \ {lastEvent'.name} :
                    emissionFactors'[d] = emissionFactors[d] ]_vars

C5_Witness ==
    /\ lastEvent.kind = "input"
    /\ carbonFootprintData[lastEvent.name] = Num(100)
    /\ \E d \in Cat \ {lastEvent.name} : carbonFootprintData[d] # Zero
    /\ emissionFactors # InitialFactors

\* --------------------------------------------------------------------- C6
\* C6: when the report is re-derived after a single activity edit for
\* category c, emissionsByCategory[d] is unchanged for every other d.
C6_DerivedFrame ==
    [][ (/\ effectPending /\ ~effectPending' /\ edits' = edits
         /\ lastEvent.kind = "input"
         /\ carbonFootprintReport.present)
        => \A d \in Cat \ {lastEvent.name} :
              carbonFootprintReport'.emissionsByCategory[d]
                 = carbonFootprintReport.emissionsByCategory[d] ]_vars

C6_Witness ==
    /\ Settled
    /\ lastEvent.kind = "input"
    /\ carbonFootprintReport.emissionsByCategory[lastEvent.name] = Num(1200)
    /\ \E d \in Cat \ {lastEvent.name} :
          carbonFootprintReport.emissionsByCategory[d] = Num(800)

\* --------------------------------------------------------------------- C7
\* C7: whenever a report is present, its totalEmissions is the sum of the
\* five values of its emissionsByCategory.
C7_TotalIsSumOfCategories ==
    carbonFootprintReport.present
    => carbonFootprintReport.totalEmissions
          = SumValues(carbonFootprintReport.emissionsByCategory, Len(Categories))

C7_Witness ==
    /\ carbonFootprintReport.present
    /\ carbonFootprintReport.emissionsByCategory.supplyChainEmissions = Num(1100)
    /\ carbonFootprintReport.emissionsByCategory.coalProduction = Num(1200)
    /\ carbonFootprintReport.totalEmissions = Num(2300)

\* --------------------------------------------------------------------- C8
\* C8: the report is absent only before the first derivation, which runs
\* on mount without any user edit; it becomes present, and once present it
\* is never absent again.
C8_ReportLifecycle ==
    /\ [](carbonFootprintReport = Null => (edits = 0 /\ (~mounted \/ effectPending)))
    /\ <>(carbonFootprintReport # Null)
    /\ [][carbonFootprintReport # Null => carbonFootprintReport' # Null]_vars

C8_Witness ==
    /\ carbonFootprintReport # Null
    /\ displayed.report.present
    /\ edits = MaxEdits
    /\ carbonFootprintData # InitialData
    /\ emissionFactors # InitialFactors

\* --------------------------------------------------------------------- C9
\* C9: with the factors never edited, the first report shows 0.00 for the
\* total and every category; with coalProduction 10 and the others 0 it
\* shows total 12.00, coalProduction 12.00 and 0.00 elsewhere; with all
\* five inputs 1 it shows total 4.80.
C9_Scenarios ==
    /\ (Settled /\ edits = 0)
          => /\ displayed.report.present
             /\ displayed.report.total = ZeroText
             /\ \A c \in Cat : displayed.report.byCategory[c] = ZeroText
    /\ (Settled /\ carbonFootprintData
                     = [InitialData EXCEPT !.coalProduction = Num(100)])
          => /\ displayed.report.total = <<"1", "2", ".", "0", "0">>
             /\ displayed.report.byCategory.coalProduction
                   = <<"1", "2", ".", "0", "0">>
             /\ \A c \in Cat \ {"coalProduction"} :
                   displayed.report.byCategory[c] = ZeroText
    /\ (Settled /\ \A c \in Cat : carbonFootprintData[c] = Num(10))
          => displayed.report.total = <<"4", ".", "8", "0">>

C9_Witness ==
    /\ Settled
    /\ \A c \in Cat : carbonFootprintData[c] = Num(10)
    /\ displayed.report.present

\* -------------------------------------------------------------------- C10
\* C10: once every pending effect has run, the report is the derivation of
\* the stored inputs and factors and of nothing else, also when an edit was
\* handled while an effect was still pending.
C10_ReportIsFunctionOfState ==
    Settled
    => carbonFootprintReport
          = calculateCarbonFootprint(carbonFootprintData, emissionFactors)

C10_Witness ==
    /\ Settled
    /\ lastEvent.pending
    /\ carbonFootprintData.coalProduction = Num(100)
    /\ emissionFactors.coalProduction = Num(5)
    /\ carbonFootprintReport.totalEmissions = Num(500)

====
